---- MODULE Spec2Model ----
(***************************************************************************)
(* Pre-commit hook wrappers of precommit/checks/general:                   *)
(*   prevent_nul_file.py, validate_agent_pointers.py and                   *)
(*   organize_scattered_docs.py.                                           *)
(*                                                                         *)
(* The state is the part of the world the hooks read and write (the git    *)
(* index, the working-directory entry 'nul', the two collaborator scripts  *)
(* and what they return) plus the record of the last hook run.  A path is  *)
(* a sequence of one-character strings, so that str.strip() and            *)
(* re.match() are computed on characters.  One action is one complete run  *)
(* of a hook's main().                                                     *)
(*                                                                         *)
(* Environment assumptions: the git executable and the Python interpreter  *)
(* (sys.executable) can be spawned; return codes follow POSIX             *)
(* (subprocess.returncode is 0..255, or -N for death by signal N).         *)
(***************************************************************************)
EXTENDS Integers, Sequences, FiniteSets

VARIABLES index, inRepo, nulOnDisk, orgExists, orgRc, genExists, genRc,
          last, runs

vars == <<index, inRepo, nulOnDisk, orgExists, orgRc, genExists, genRc,
          last, runs>>

(***************************************************************************)
(* Bounds                                                                  *)
(***************************************************************************)
MaxStaged == 2

MaxExit == 2

MaxSignal == 1

MaxRepeat == 2

(***************************************************************************)
(* Path literals                                                           *)
(***************************************************************************)
NulPath ==
  <<"n", "u", "l">>

AgentDirPrefix ==
  <<".", "a", "g", "e", "n", "t", "/">>

ClaudeMd ==
  <<"C", "L", "A", "U", "D", "E", ".", "m", "d">>

AgentsMd ==
  <<"A", "G", "E", "N", "T", "S", ".", "m", "d">>

CopilotMd ==
  <<".", "g", "i", "t", "h", "u", "b", "/", "c", "o", "p", "i", "l", "o", "t",
    "-", "i", "n", "s", "t", "r", "u", "c", "t", "i", "o", "n", "s", ".",
    "m", "d">>

WindsurfMd ==
  <<".", "w", "i", "n", "d", "s", "u", "r", "f", "/", "r", "u", "l", "e", "s",
    ".", "m", "d">>

\* Paths a developer may have staged, besides the literals above.
NulSpacePath ==
  <<"n", "u", "l", " ">>

SrcMainPy ==
  <<"s", "r", "c", "/", "m", "a", "i", "n", ".", "p", "y">>

AgentFile ==
  <<".", "a", "g", "e", "n", "t", "/", "x">>

ClaudeMdBak ==
  <<"C", "L", "A", "U", "D", "E", ".", "m", "d", ".", "b", "a", "k">>

Paths ==
  {NulPath, NulSpacePath, SrcMainPy, AgentFile, ClaudeMd, ClaudeMdBak,
   AgentsMd, CopilotMd, WindsurfMd}

\* subprocess.CompletedProcess.returncode of a collaborator script.
RetCodes == (0 - MaxSignal)..MaxExit

\* The working-directory entry 'nul': absent, a regular file, or "dir" for
\* any entry that exists() and is_file() do not both accept.
DiskKinds == {"absent", "file", "dir"}

(***************************************************************************)
(* Pure helpers                                                            *)
(***************************************************************************)
IsSpace(c) == c \in {" ", "\t"}

RECURSIVE LStrip(_)
LStrip(s) ==
  IF s # <<>> /\ IsSpace(Head(s)) THEN LStrip(Tail(s)) ELSE s

RECURSIVE RStrip(_)
RStrip(s) ==
  IF s # <<>> /\ IsSpace(s[Len(s)]) THEN RStrip(SubSeq(s, 1, Len(s) - 1))
  ELSE s

\* str.strip()
Strip(s) == RStrip(LStrip(s))

StartsWith(s, pre) ==
  /\ Len(s) >= Len(pre)
  /\ SubSeq(s, 1, Len(pre)) = pre

\* diff.stdout.splitlines(): one line per staged path; empty when the query
\* fails (not inside a repository).
DiffLines == IF inRepo THEN index ELSE {}

\* {line.strip() for line in ... if line.strip()}
Staged(lines) == {Strip(l) : l \in lines} \ {<<>>}

\* RELEVANT_PATTERN.match(p): the pattern is anchored at the start only.
RelevantMatch(p) ==
  \/ StartsWith(p, AgentDirPrefix)
  \/ StartsWith(p, ClaudeMd)
  \/ StartsWith(p, AgentsMd)
  \/ StartsWith(p, CopilotMd)
  \/ StartsWith(p, WindsurfMd)

\* any(RELEVANT_PATTERN.match(p) for p in staged)
GateMatches(staged) == \E p \in staged : RelevantMatch(p)

\* nul_path.exists() and nul_path.is_file()
IsRegularFile(d) == d = "file"

\* The interpreter's exit status when it cannot open the script file.
PyCantOpenFile == 2

\* subprocess.run([sys.executable, script, flag]).returncode
SpawnPython(exists, rc) == IF exists THEN rc ELSE PyCantOpenFile

\* sys.exit(n) / raise SystemExit(n): the status the parent process sees.
ExitStatus(n) == n % 256

Op(c, r) == [cmd |-> c, rc |-> r]

NoRun ==
  [hook |-> "none", auto_fix |-> FALSE, exit |-> 0, raised |-> FALSE,
   ops |-> <<>>]

Run(h, a, e, o) ==
  [hook |-> h, auto_fix |-> a, exit |-> e, raised |-> FALSE, ops |-> o]

\* Number of consecutive runs of the same hook with the same arguments.
Repeat(h, a) ==
  IF last.hook = h /\ last.auto_fix = a
  THEN (IF runs < MaxRepeat THEN runs + 1 ELSE MaxRepeat)
  ELSE 1

GitDiffOp == Op("git diff --cached --name-only", IF inRepo THEN 0 ELSE 129)

(***************************************************************************)
(* prevent_nul_file.py                                                     *)
(***************************************************************************)
\* nul_path.unlink(missing_ok=True) inside try/except
AfterUnlink(d, ok) == IF ok THEN "absent" ELSE d

UnlinkOp(ok) == Op("unlink nul", IF ok THEN 0 ELSE 1)

\* Faulty variant: the unstage command has no effect on the index.
AfterResetKeepsIndex(idx, ok) == idx

\* run(["git", "reset", "HEAD", "nul"])
AfterReset(idx, ok) == IF ok THEN idx \ {NulPath} ELSE idx

ResetOp(ok) == Op("git reset HEAD nul", IF ok THEN 0 ELSE 128)

\* Faulty variant: no try/except around the deletion, so a failed unlink leaves main()
\* by an exception before the unstage command.
StagedBranchNoTry(d, idx, delOk, unstOk) ==
  IF IsRegularFile(d) /\ ~delOk
  THEN [disk |-> d, index |-> idx, ops |-> <<UnlinkOp(FALSE)>>,
        raised |-> TRUE, ret |-> 1]
  ELSE [disk   |-> IF IsRegularFile(d) THEN "absent" ELSE d,
        index  |-> AfterReset(idx, unstOk),
        ops    |-> (IF IsRegularFile(d) THEN <<UnlinkOp(TRUE)>> ELSE <<>>)
                     \o <<ResetOp(unstOk)>>,
        raised |-> FALSE,
        ret    |-> 1]

\* Lines 43-52, 'nul' is staged: delete (best effort), unstage, return 1.
StagedBranch(d, idx, delOk, unstOk) ==
  [disk   |-> IF IsRegularFile(d) THEN AfterUnlink(d, delOk) ELSE d,
   index  |-> AfterReset(idx, unstOk),
   ops    |-> (IF IsRegularFile(d) THEN <<UnlinkOp(delOk)>> ELSE <<>>)
                \o <<ResetOp(unstOk)>>,
   raised |-> FALSE,
   ret    |-> 1]

\* Faulty variant: finding a stray file fails the hook.
CleanupBranchFails(d, idx, delOk) ==
  [disk   |-> IF IsRegularFile(d) THEN AfterUnlink(d, delOk) ELSE d,
   index  |-> idx,
   ops    |-> IF IsRegularFile(d) THEN <<UnlinkOp(delOk)>> ELSE <<>>,
   raised |-> FALSE,
   ret    |-> IF IsRegularFile(d) THEN 1 ELSE 0]

\* Lines 55-65, 'nul' is not staged: delete a stray file, return 0.
CleanupBranch(d, idx, delOk) ==
  [disk   |-> IF IsRegularFile(d) THEN AfterUnlink(d, delOk) ELSE d,
   index  |-> idx,
   ops    |-> IF IsRegularFile(d) THEN <<UnlinkOp(delOk)>> ELSE <<>>,
   raised |-> FALSE,
   ret    |-> 0]

PreventNulFile ==
  /\ \E delOk \in BOOLEAN, unstOk \in BOOLEAN :
       LET staged == Staged(DiffLines)
           r == IF NulPath \in staged
                THEN StagedBranch(nulOnDisk, index, delOk, unstOk)
                ELSE CleanupBranch(nulOnDisk, index, delOk)
       IN  /\ nulOnDisk' = r.disk
           /\ index' = r.index
           /\ last' = [hook |-> "prevent_nul_file", auto_fix |-> FALSE,
                       exit |-> ExitStatus(r.ret), raised |-> r.raised,
                       ops |-> <<GitDiffOp>> \o r.ops]
  /\ runs' = Repeat("prevent_nul_file", FALSE)
  /\ UNCHANGED <<inRepo, orgExists, orgRc, genExists, genRc>>

(***************************************************************************)
(* validate_agent_pointers.py                                              *)
(***************************************************************************)
GeneratorExistsOp(exists) ==
  Op("exists .agent/scripts/generate_pointers.py", IF exists THEN 0 ELSE 1)

GeneratorCheckOp(rc) == Op("python generate_pointers.py --check", rc)

\* Faulty variant: the generator's return code is returned as it is.
ValidatorReturnPropagates(rc) == rc

\* lines 44-56: return 0 if proc.returncode == 0, else return 1
ValidatorReturn(rc) == IF rc = 0 THEN 0 ELSE 1

ValidateAgentPointers ==
  LET staged == Staged(DiffLines)
      rc == SpawnPython(genExists, genRc)
  IN  /\ last' =
           IF GateMatches(staged)
           THEN IF ~genExists
                THEN Run("validate_agent_pointers", FALSE, ExitStatus(1),
                         <<GitDiffOp, GeneratorExistsOp(FALSE)>>)
                ELSE Run("validate_agent_pointers", FALSE,
                         ExitStatus(ValidatorReturn(rc)),
                         <<GitDiffOp, GeneratorExistsOp(TRUE),
                           GeneratorCheckOp(rc)>>)
           ELSE Run("validate_agent_pointers", FALSE, ExitStatus(0),
                    <<GitDiffOp>>)
      /\ runs' = Repeat("validate_agent_pointers", FALSE)
      /\ UNCHANGED <<index, inRepo, nulOnDisk, orgExists, orgRc, genExists,
                     genRc>>

(***************************************************************************)
(* organize_scattered_docs.py                                              *)
(***************************************************************************)
OrganizerOp(flag, rc) == Op("python organize_docs.py " \o flag, rc)

\* Faulty variant: auto-fix mode collapses every failure to 1.
AutoFixExitCollapsed(rc) == IF rc = 0 THEN 0 ELSE 1

\* line 48: sys.exit(result.returncode)
AutoFixExit(rc) == rc

\* Faulty variant: warn mode only warns.
WarnExitOnlyWarns(rc) == 0

\* lines 58-72: sys.exit(0) if result.returncode == 0, else sys.exit(1)
WarnExit(rc) == IF rc = 0 THEN 0 ELSE 1

OrganizeScatteredDocs(auto_fix) ==
  LET rc == SpawnPython(orgExists, orgRc)
  IN  /\ last' =
           IF auto_fix
           THEN Run("organize_scattered_docs", TRUE,
                    ExitStatus(AutoFixExit(rc)),
                    <<OrganizerOp("--auto-move", rc)>>)
           ELSE Run("organize_scattered_docs", FALSE,
                    ExitStatus(WarnExit(rc)),
                    <<OrganizerOp("--dry-run", rc)>>)
      /\ runs' = Repeat("organize_scattered_docs", auto_fix)
      /\ UNCHANGED <<index, inRepo, nulOnDisk, orgExists, orgRc, genExists,
                     genRc>>

(***************************************************************************)
(* Specification                                                           *)
(***************************************************************************)
Init ==
  /\ inRepo \in BOOLEAN
  /\ index \in {s \in SUBSET Paths : Cardinality(s) <= MaxStaged}
  /\ (~inRepo => index = {})
  /\ nulOnDisk \in DiskKinds
  /\ orgExists \in BOOLEAN
  /\ orgRc \in RetCodes
  /\ genExists \in BOOLEAN
  /\ genRc \in RetCodes
  /\ last = NoRun
  /\ runs = 0

Next ==
  \/ PreventNulFile
  \/ ValidateAgentPointers
  \/ \E auto_fix \in BOOLEAN : OrganizeScatteredDocs(auto_fix)

Spec == Init /\ [][Next]_vars

(***************************************************************************)
(* Properties                                                              *)
(***************************************************************************)
NulHook == "prevent_nul_file"

ValidatorHook == "validate_agent_pointers"

DocsHook == "organize_scattered_docs"

UnlinkCmd == "unlink nul"

ResetCmd == "git reset HEAD nul"

GeneratorExistsCmd == "exists .agent/scripts/generate_pointers.py"

GeneratorCheckCmd == "python generate_pointers.py --check"

OpsOf(r, c) == {i \in 1..Len(r.ops) : r.ops[i].cmd = c}

HasOp(r, c) == OpsOf(r, c) # {}

\* Every operation c of run r succeeded.
OpOk(r, c) == \A i \in OpsOf(r, c) : r.ops[i].rc = 0

\* Some operation c of run r failed.
OpFailed(r, c) == \E i \in OpsOf(r, c) : r.ops[i].rc # 0

SpawnedCollaborator(r) ==
  \E i \in 1..Len(r.ops) :
    r.ops[i].cmd \in {GeneratorCheckCmd, "python organize_docs.py --dry-run",
                      "python organize_docs.py --auto-move"}

\* The path 'nul' itself is staged, as git reports it.
NulIsStaged == NulPath \in DiffLines

\* A staged path lies under .agent/ or is one of the four pointer files.
PointerPathStaged ==
  \E p \in DiffLines :
    \/ StartsWith(p, AgentDirPrefix)
    \/ p \in {ClaudeMd, AgentsMd, CopilotMd, WindsurfMd}

\* C1 as stated: whenever 'nul' is staged and the deletion and the unstage
\* both succeed, the guard returns 1 and afterwards 'nul' is neither staged
\* nor present in the working directory.
C1_AsStated ==
  [][(/\ last'.hook = NulHook
      /\ NulIsStaged
      /\ OpOk(last', UnlinkCmd)
      /\ OpOk(last', ResetCmd))
     => (/\ last'.exit = 1
         /\ NulPath \notin index'
         /\ nulOnDisk' = "absent")]_vars

\* C1 amended: whenever 'nul' is staged, the working-directory entry 'nul'
\* is absent or a regular file, and the deletion and the unstage both
\* succeed, the guard returns 1 and afterwards 'nul' is neither staged nor
\* present in the working directory.
C1_StagedNulRemoved ==
  [][(/\ last'.hook = NulHook
      /\ NulIsStaged
      /\ nulOnDisk \in {"absent", "file"}
      /\ OpOk(last', UnlinkCmd)
      /\ OpOk(last', ResetCmd))
     => (/\ last'.exit = 1
         /\ NulPath \notin index'
         /\ nulOnDisk' = "absent")]_vars

C1_Witness ==
  /\ last.hook = NulHook
  /\ last.exit = 1
  /\ HasOp(last, UnlinkCmd) /\ OpOk(last, UnlinkCmd)
  /\ HasOp(last, ResetCmd) /\ OpOk(last, ResetCmd)
  /\ NulPath \notin index
  /\ nulOnDisk = "absent"

\* What the collaborator of the last-run hook returns in the current world.
OrganizerRc == SpawnPython(orgExists, orgRc)

GeneratorRc == SpawnPython(genExists, genRc)

\* C2 as stated: a hook run ends with exit code 0 exactly when no developer
\* action is needed: the organizer reported nothing (returned 0); 'nul' was
\* not staged and no 'nul' file remains on disk; the validator's gate
\* matched no staged path or the generator reported the pointers in sync.
C2_AsStated ==
  [][/\ last'.hook = DocsHook => (last'.exit = 0 <=> OrganizerRc = 0)
     /\ last'.hook = ValidatorHook
          => (last'.exit = 0 <=> (\/ ~GateMatches(Staged(DiffLines))
                                  \/ (genExists /\ GeneratorRc = 0)))
     /\ last'.hook = NulHook
          => (last'.exit = 0 <=> (~NulIsStaged /\ nulOnDisk' # "file"))]_vars

\* C2 amended: for the scattered-docs hook and the validator the exit code
\* is 0 exactly when no action is needed (as above); the nul guard exits 0
\* exactly when no staged path reads 'nul' once surrounding whitespace is
\* stripped, also when a stray 'nul' file could not be deleted and remains.
C2_ExitZeroIff ==
  [][/\ last'.hook = DocsHook => (last'.exit = 0 <=> OrganizerRc = 0)
     /\ last'.hook = ValidatorHook
          => (last'.exit = 0 <=> (\/ ~GateMatches(Staged(DiffLines))
                                  \/ (genExists /\ GeneratorRc = 0)))
     /\ last'.hook = NulHook
          => (last'.exit = 0 <=> (\A p \in DiffLines : Strip(p) # NulPath))
    ]_vars

C2_Witness ==
  /\ last.hook = NulHook
  /\ last.exit = 0
  /\ OpFailed(last, UnlinkCmd)
  /\ nulOnDisk = "file"

\* C3 as stated: the scattered-docs hook exits with the organizer's exit
\* code k whenever k is non-zero, in both modes, and with --auto-fix for
\* every k including 0.
C3_AsStated ==
  last.hook = DocsHook
    => LET k == last.ops[1].rc
       IN  /\ k \in 1..255 => last.exit = k
           /\ (last.auto_fix /\ k >= 0) => last.exit = k

\* C3 amended: in warn mode the scattered-docs hook exits 1 whenever the
\* organizer returns non-zero and 0 when it returns 0; with --auto-fix it
\* exits with the organizer's exit code k for every k in 0..255 (and with
\* 256 - N when the organizer was killed by signal N).
C3_DocsExitCode ==
  last.hook = DocsHook
    => LET k == last.ops[1].rc
       IN  /\ ~last.auto_fix => last.exit = (IF k = 0 THEN 0 ELSE 1)
           /\ (last.auto_fix /\ k >= 0) => last.exit = k
           /\ (last.auto_fix /\ k < 0) => last.exit = 256 + k

C3_Witness ==
  /\ last.hook = DocsHook
  /\ ~last.auto_fix
  /\ last.ops[1].rc = 2
  /\ last.exit = 1

\* C4: a hook whose collaborator script is missing spawns no subprocess for
\* it and exits 1 (scattered-docs hook: the organizer; validator, once its
\* gate matched: the generator).
C4_MissingScript ==
  /\ (last.hook = DocsHook /\ ~orgExists)
       => (~SpawnedCollaborator(last) /\ last.exit = 1)
  /\ (last.hook = ValidatorHook /\ GateMatches(Staged(DiffLines))
        /\ ~genExists)
       => (~SpawnedCollaborator(last) /\ last.exit = 1)

\* C5: the validator checks for or invokes the generator, or exits
\* non-zero, only if some staged path lies under .agent/ or equals one of
\* the four pointer filenames; otherwise it returns 0 having done neither.
C5_GateExact ==
  (/\ last.hook = ValidatorHook
   /\ \/ HasOp(last, GeneratorExistsCmd)
      \/ HasOp(last, GeneratorCheckCmd)
      \/ last.exit # 0)
    => PointerPathStaged

\* C6: when a staged path matches the relevance pattern and the generator
\* exists, the generator is invoked exactly once with --check and the
\* validator returns 0 if the generator returned 0 and 1 otherwise.
C6_ValidatorOutcome ==
  (/\ last.hook = ValidatorHook
   /\ GateMatches(Staged(DiffLines))
   /\ genExists)
    => /\ Cardinality(OpsOf(last, GeneratorCheckCmd)) = 1
       /\ \A i \in OpsOf(last, GeneratorCheckCmd) : last.ops[i].rc = genRc
       /\ last.exit = (IF genRc = 0 THEN 0 ELSE 1)

C6_Witness ==
  /\ last.hook = ValidatorHook
  /\ HasOp(last, GeneratorCheckCmd)
  /\ genRc = 2
  /\ last.exit = 1

SameHookAgain ==
  /\ last.hook # "none"
  /\ last'.hook = last.hook
  /\ last'.auto_fix = last.auto_fix

\* C7 as stated: a hook run again right after itself, with the same
\* arguments, yields the same exit code as the first run.
C7_AsStated ==
  [][SameHookAgain => last'.exit = last.exit]_vars

\* C7 amended: a hook run again right after itself yields the same exit
\* code, except that the nul guard may return 0 after a first run that
\* returned 1 and whose unstage command succeeded.
C7_Idempotent ==
  [][SameHookAgain
       => \/ last'.exit = last.exit
          \/ /\ last.hook = NulHook
             /\ last.exit = 1
             /\ last'.exit = 0
             /\ HasOp(last, ResetCmd) /\ OpOk(last, ResetCmd)]_vars

C7_Witness ==
  /\ runs = 2
  /\ last.hook = NulHook
  /\ last.exit = 0
  /\ nulOnDisk = "file"

\* C8: when 'nul' is not staged and a regular file 'nul' is on disk, the
\* guard returns 0, the file is gone afterwards if the deletion succeeded,
\* and the index is unchanged with no unstage command issued.
C8_DiskOnly ==
  [][(/\ last'.hook = NulHook
      /\ ~NulIsStaged
      /\ nulOnDisk = "file")
     => (/\ last'.exit = 0
         /\ OpOk(last', UnlinkCmd) => nulOnDisk' = "absent"
         /\ index' = index
         /\ ~HasOp(last', ResetCmd))]_vars

\* C9: when 'nul' is not staged (also when the staged-file query fails) and
\* no 'nul' file is on disk, the guard returns 0, deletes nothing and
\* issues no unstage command.
C9_Clean ==
  [][(/\ last'.hook = NulHook
      /\ ~NulIsStaged
      /\ nulOnDisk # "file")
     => (/\ last'.exit = 0
         /\ index' = index
         /\ nulOnDisk' = nulOnDisk
         /\ ~HasOp(last', UnlinkCmd)
         /\ ~HasOp(last', ResetCmd))]_vars

\* C10: when 'nul' is staged the guard attempts the deletion of a 'nul'
\* file, issues the unstage command whether or not the deletion failed,
\* and returns 1 without raising whatever the two outcomes are.
C10_BestEffort ==
  [][(last'.hook = NulHook /\ NulIsStaged)
     => (/\ last'.exit = 1
         /\ ~last'.raised
         /\ nulOnDisk = "file" => HasOp(last', UnlinkCmd)
         /\ Cardinality(OpsOf(last', ResetCmd)) = 1
         /\ last'.ops[Len(last'.ops)].cmd = ResetCmd)]_vars

C10_Witness ==
  /\ last.hook = NulHook
  /\ OpFailed(last, UnlinkCmd)
  /\ OpFailed(last, ResetCmd)
  /\ last.exit = 1
  /\ ~last.raised

====
